---- MODULE Spec2Model ----
(***************************************************************************)
(* Model of email_parser.py: the MailAdapter dispatcher, the EmlAdapter    *)
(* and MsgAdapter decoders and the helper functions they call.             *)
(*                                                                         *)
(* Bytes and text are sequences of numbers (byte values, code points).     *)
(* A Python None that stands where a string is expected is the string      *)
(* NoneStr; an absent header is the string Absent.                         *)
(***************************************************************************)
EXTENDS Integers, Sequences, FiniteSets, TLC

\* ------------------------------------------------------------------ bounds
MaxDecodes == 2      \* decode calls made on one adapter instance
MaxBodyLen == 3      \* bytes in a .msg body
MaxParts == 2        \* leaf parts in a multipart .eml message
MaxAttach == 2       \* attachments in a .msg container

\* --------------------------------------------------------------- sentinels
NoneStr == "<None>"
Absent == "<absent>"

\* ------------------------------------------------------------------ codecs
ENCODINGS == <<"ascii", "utf-8", "utf-8-sig", "latin-1", "cp1252">>

IsCont(b) == b >= 128 /\ b <= 191

\* bytes.decode("utf-8"): [ok, text]; 1- to 4-byte forms, strict.
RECURSIVE Utf8Decode(_)
Utf8Decode(b) ==
    IF b = <<>> THEN [ok |-> TRUE, text |-> <<>>]
    ELSE LET b1 == b[1]
             n == Len(b)
             rest(k) == Utf8Decode(SubSeq(b, k + 1, n))
             cons(c, k) == LET r == rest(k)
                           IN [ok |-> r.ok, text |-> IF r.ok THEN <<c>> \o r.text ELSE <<>>]
             bad == [ok |-> FALSE, text |-> <<>>]
         IN IF b1 < 128 THEN cons(b1, 1)
            ELSE IF b1 >= 194 /\ b1 <= 223
                 THEN IF n >= 2 /\ IsCont(b[2])
                      THEN cons((b1 - 192) * 64 + (b[2] - 128), 2)
                      ELSE bad
            ELSE IF b1 >= 224 /\ b1 <= 239
                 THEN IF n >= 3 /\ IsCont(b[2]) /\ IsCont(b[3])
                         /\ (b1 = 224 => b[2] >= 160)
                         /\ (b1 = 237 => b[2] <= 159)
                      THEN cons((b1 - 224) * 4096 + (b[2] - 128) * 64 + (b[3] - 128), 3)
                      ELSE bad
            ELSE IF b1 >= 240 /\ b1 <= 244
                 THEN IF n >= 4 /\ IsCont(b[2]) /\ IsCont(b[3]) /\ IsCont(b[4])
                         /\ (b1 = 240 => b[2] >= 144)
                         /\ (b1 = 244 => b[2] <= 143)
                      THEN cons((b1 - 240) * 262144 + (b[2] - 128) * 4096
                                + (b[3] - 128) * 64 + (b[4] - 128), 4)
                      ELSE bad
            ELSE bad

\* bytes undefined in Python's cp1252 table
Cp1252Undefined == {129, 141, 143, 144, 157}

\* cp1252 code point of a defined byte (0x80 is the euro sign; the other
\* bytes of 0x80..0x9f do not occur in the byte alphabets used here)
Cp1252Char(b) == IF b = 128 THEN 8364 ELSE b

\* bytes.decode(enc) for the codecs of ENCODINGS; exc is "" on success.
Decode(b, enc) ==
    CASE enc = "ascii" ->
           IF \A i \in 1..Len(b) : b[i] < 128
           THEN [exc |-> "", text |-> b]
           ELSE [exc |-> "UnicodeDecodeError", text |-> <<>>]
      [] enc = "utf-8" ->
           LET r == Utf8Decode(b)
           IN IF r.ok THEN [exc |-> "", text |-> r.text]
              ELSE [exc |-> "UnicodeDecodeError", text |-> <<>>]
      [] enc = "utf-8-sig" ->
           LET c == IF Len(b) >= 3 /\ SubSeq(b, 1, 3) = <<239, 187, 191>>
                    THEN SubSeq(b, 4, Len(b)) ELSE b
               r == Utf8Decode(c)
           IN IF r.ok THEN [exc |-> "", text |-> r.text]
              ELSE [exc |-> "UnicodeDecodeError", text |-> <<>>]
      [] enc = "latin-1" -> [exc |-> "", text |-> b]
      [] enc = "cp1252" ->
           IF \A i \in 1..Len(b) : b[i] \notin Cp1252Undefined
           THEN [exc |-> "", text |-> [i \in 1..Len(b) |-> Cp1252Char(b[i])]]
           ELSE [exc |-> "UnicodeDecodeError", text |-> <<>>]
      [] OTHER -> [exc |-> "LookupError", text |-> <<>>]

\* bytes.decode("ascii", errors="ignore")
RECURSIVE AsciiIgnore(_)
AsciiIgnore(b) ==
    IF b = <<>> THEN <<>>
    ELSE (IF b[1] < 128 THEN <<b[1]>> ELSE <<>>) \o AsciiIgnore(Tail(b))

\* s.strip(chars): drop leading and trailing members of chars
RECURSIVE LStrip(_, _)
LStrip(s, chars) ==
    IF s # <<>> /\ s[1] \in chars THEN LStrip(Tail(s), chars) ELSE s

RECURSIVE RStrip(_, _)
RStrip(s, chars) ==
    IF s # <<>> /\ s[Len(s)] \in chars
    THEN RStrip(SubSeq(s, 1, Len(s) - 1), chars) ELSE s

Strip(s, chars) == RStrip(LStrip(s, chars), chars)

\* bytes.strip() strips ASCII whitespace
Whitespace == {9, 10, 11, 12, 13, 32}

\* decode_msg_body, the loop over encodings from position i on
RECURSIVE TryEncodings(_, _, _)
TryEncodings(body, encodings, i) ==
    IF i > Len(encodings) THEN AsciiIgnore(body)
    ELSE LET r == Decode(body, encodings[i])
         IN IF r.exc = "" THEN r.text
            ELSE TryEncodings(body, encodings, i + 1)

\* decode_msg_body that tries ascii only before the lossy fallback
decode_msg_body_ascii_only(body) ==
    IF body.kind = "str" THEN body.val
    ELSE TryEncodings(body.val, <<"ascii">>, 1)

\* decode_msg_body(body): body is [kind: "str" | "bytes", val]
decode_msg_body(body) ==
    IF body.kind = "str" THEN body.val
    ELSE TryEncodings(body.val, ENCODINGS, 1)

\* ------------------------------------------------------------ header fields
\* A header is [date, subject, from, to, cc]: date, subject and from are the
\* raw header value or Absent; to and cc are the lists message.get_all gives.
GoodDate == "Mon, 1 Jan 2024 10:00:00 +0000"
DateStamp == "2024-01-01T10:00:00+00:00"

\* message.get(name, ""): the failobj "" for an absent header
Get(value) == IF value = Absent THEN "" ELSE value

\* email.utils.parsedate_to_datetime: raises ValueError on anything that is
\* no RFC 2822 date, the empty string included
parsedate_to_datetime(data) ==
    IF data = GoodDate THEN [exc |-> "", value |-> DateStamp]
    ELSE [exc |-> "ValueError", value |-> ""]

\* the (name, address) pairs email.utils finds in one raw header value
AddressesOf(raw) ==
    CASE raw = "A <a@x.com>" -> << <<"A", "a@x.com">> >>
      [] raw = "b@x.com" -> << <<"", "b@x.com">> >>
      [] raw = "B <b@x.com>, c@x.com" -> << <<"B", "b@x.com">>, <<"", "c@x.com">> >>
      [] OTHER -> <<>>

\* email.utils.parseaddr: the first pair, or ("", "")
parseaddr(raw) ==
    IF AddressesOf(raw) = <<>> THEN <<"", "">> ELSE AddressesOf(raw)[1]

\* email.utils.getaddresses over a list of raw values
RECURSIVE getaddresses(_)
getaddresses(values) ==
    IF values = <<>> THEN <<>>
    ELSE AddressesOf(values[1]) \o getaddresses(Tail(values))

\* the empty dict {} that __init__ stores in sender and author
EmptyDict == [name |-> NoneStr, smtp_address |-> NoneStr]

\* MailAdapter.__init__: the record self.mail_data starts as
InitMailData ==
    [subject |-> "", body |-> <<>>, received_on |-> "",
     sender |-> EmptyDict, author |-> EmptyDict, to |-> <<>>, cc |-> <<>>,
     attachment_names |-> <<>>, attachment_binaries |-> <<>>,
     attachment_types |-> <<>>]

extract_address_list_from_eml(values) ==
    LET pairs == getaddresses(values)
    IN [i \in 1..Len(pairs) |-> [name |-> pairs[i][1], smtp_address |-> pairs[i][2]]]

\* extract_metadata_from_eml_header: [exc, md]; the date is parsed first, so
\* a failure leaves mail_data untouched
extract_metadata_from_eml_header(header, mail_data) ==
    LET timestamp == parsedate_to_datetime(Get(header.date))
        addr == parseaddr(Get(header.from))
        author_information == [name |-> addr[1], smtp_address |-> addr[2]]
    IN IF timestamp.exc # "" THEN [exc |-> timestamp.exc, md |-> mail_data]
       ELSE [exc |-> "",
             md |-> [mail_data EXCEPT
                       !.received_on = timestamp.value,
                       !.subject = Get(header.subject),
                       !.author = author_information,
                       !.sender = author_information,
                       !.to = extract_address_list_from_eml(header.to),
                       !.cc = extract_address_list_from_eml(header.cc)]]

\* --------------------------------------------------------------- MIME parts
\* A part is [multipart, ctype, ctparams, disp, filename, payload, parts]:
\* ctype is the Content-Type value or Absent, ctparams its parameters as
\* <<key, value>> pairs, disp the disposition or NoneStr, filename what
\* get_filename() returns (NoneStr for None), payload the transfer-decoded
\* bytes of a leaf, parts the children of a container.
Leaf(ctype, ctparams, disp, filename, payload) ==
    [multipart |-> FALSE, ctype |-> ctype, ctparams |-> ctparams, disp |-> disp,
     filename |-> filename, payload |-> payload, parts |-> <<>>]

Container(parts) ==
    [multipart |-> TRUE, ctype |-> "multipart/mixed",
     ctparams |-> << <<"boundary", "B">> >>, disp |-> NoneStr,
     filename |-> NoneStr, payload |-> <<>>, parts |-> parts]

\* Message.get_content_type: text/plain when the header is absent
get_content_type(part) == IF part.ctype = Absent THEN "text/plain" ELSE part.ctype

get_content_maintype(part) ==
    CASE get_content_type(part) = "text/plain" -> "text"
      [] get_content_type(part) = "application/pdf" -> "application"
      [] get_content_type(part) = "multipart/mixed" -> "multipart"

\* Message.get_params(): [none, list]; None when the header is absent,
\* otherwise the content type itself followed by its parameters
get_params(part) ==
    IF part.ctype = Absent THEN [none |-> TRUE, list |-> <<>>]
    ELSE [none |-> FALSE, list |-> << <<part.ctype, "">> >> \o part.ctparams]

\* Message.walk(): the part, then its subparts depth-first
RECURSIVE Walk(_)
RECURSIVE WalkAll(_)
Walk(part) == <<part>> \o WalkAll(part.parts)
WalkAll(parts) ==
    IF parts = <<>> THEN <<>> ELSE Walk(parts[1]) \o WalkAll(Tail(parts))

\* get_charset: [exc, charset]. part.get_params()[1][1]; only IndexError is
\* caught, subscripting None raises TypeError
get_charset(part) ==
    LET params == get_params(part)
    IN IF params.none THEN [exc |-> "TypeError", charset |-> ""]
       ELSE IF Len(params.list) < 2 THEN [exc |-> "", charset |-> "utf-8"]
       ELSE [exc |-> "", charset |-> params.list[2][2]]

\* part.get_payload(decode=True).strip().decode(charset): [exc, text];
\* a container's payload is None
PayloadText(part) ==
    LET charset == get_charset(part)
    IN IF charset.exc # "" THEN [exc |-> charset.exc, text |-> <<>>]
       ELSE IF part.multipart THEN [exc |-> "AttributeError", text |-> <<>>]
       ELSE Decode(Strip(part.payload, Whitespace), charset.charset)

\* extract_body_from_eml, the loop over message.walk() from position i on
RECURSIVE BodyLoop(_, _, _)
BodyLoop(parts, i, body) ==
    IF i > Len(parts) THEN [exc |-> "", text |-> body]
    ELSE LET part == parts[i]
         IN IF get_content_maintype(part) = "text" /\ part.disp # "attachment"
            THEN LET r == PayloadText(part)
                 IN IF r.exc # "" THEN r ELSE BodyLoop(parts, i + 1, r.text)
            ELSE BodyLoop(parts, i + 1, body)

\* extract_body_from_eml that keeps the first qualifying part (first-match)
RECURSIVE BodyLoopFirst(_, _)
BodyLoopFirst(parts, i) ==
    IF i > Len(parts) THEN [exc |-> "", text |-> <<>>]
    ELSE IF get_content_maintype(parts[i]) = "text" /\ parts[i].disp # "attachment"
         THEN PayloadText(parts[i])
         ELSE BodyLoopFirst(parts, i + 1)

extract_body_first_match(message) ==
    IF message.multipart THEN BodyLoopFirst(Walk(message), 1)
    ELSE PayloadText(message)

\* extract_body_from_eml: [exc, text]
extract_body_from_eml(message) ==
    IF message.multipart THEN BodyLoop(Walk(message), 1, <<>>)
    ELSE PayloadText(message)

\* extract_attachments_from_eml, the loop over message.walk() from i on
RECURSIVE AttachLoop(_, _, _)
AttachLoop(parts, i, mail_data) ==
    IF i > Len(parts) THEN mail_data
    ELSE LET part == parts[i]
         IN IF part.disp = "attachment" /\ part.filename # NoneStr
            THEN AttachLoop(parts, i + 1,
                   [mail_data EXCEPT
                      !.attachment_names = Append(@, part.filename),
                      !.attachment_binaries = Append(@, part.payload),
                      !.attachment_types = Append(@, get_content_type(part))])
            ELSE AttachLoop(parts, i + 1, mail_data)

\* extract_attachments_from_eml that appends the name outside the
\* "name is not None" test
RECURSIVE AttachLoopUnguardedName(_, _, _)
AttachLoopUnguardedName(parts, i, mail_data) ==
    IF i > Len(parts) THEN mail_data
    ELSE LET part == parts[i]
             named == [mail_data EXCEPT !.attachment_names = Append(@, part.filename)]
         IN IF part.disp # "attachment"
            THEN AttachLoopUnguardedName(parts, i + 1, mail_data)
            ELSE IF part.filename # NoneStr
            THEN AttachLoopUnguardedName(parts, i + 1,
                   [named EXCEPT
                      !.attachment_binaries = Append(@, part.payload),
                      !.attachment_types = Append(@, get_content_type(part))])
            ELSE AttachLoopUnguardedName(parts, i + 1, named)

extract_attachments_unguarded_name(message, mail_data) ==
    AttachLoopUnguardedName(Walk(message), 1, mail_data)

extract_attachments_from_eml(message, mail_data) ==
    AttachLoop(Walk(message), 1, mail_data)

\* ------------------------------------------------------------ file contents
\* What a file holds: an .eml message (header + root part) or a compound
\* .msg container as extract_msg exposes it (header, body, attachments);
\* wellformed is FALSE for bytes extract_msg.Message cannot parse.
NoBody == [kind |-> "none", val |-> <<>>]

EmlContent(header, message) ==
    [kind |-> "eml", wellformed |-> TRUE, header |-> header, message |-> message,
     body |-> NoBody, attachments |-> <<>>]

MsgContent(wellformed, header, body, attachments) ==
    [kind |-> "msg", wellformed |-> wellformed, header |-> header,
     message |-> Leaf(Absent, <<>>, NoneStr, NoneStr, <<>>),
     body |-> body, attachments |-> attachments]

NoHeader == [date |-> Absent, subject |-> Absent, from |-> Absent, to |-> <<>>, cc |-> <<>>]

\* message_from_binary_file(file): never raises; bytes that are no RFC 5322
\* text (nothing left to read, or a compound binary) give a message without
\* headers and with an empty payload
message_from_binary_file(content, pos) ==
    IF pos = 0 /\ content.kind = "eml" THEN content
    ELSE EmlContent(NoHeader, Leaf(Absent, <<>>, NoneStr, NoneStr, <<>>))

\* extract_msg.Message(mail): [exc, message]; raises on bytes that are no
\* compound document (an empty read included)
Message(content, pos) ==
    IF pos = 0 /\ content.kind = "msg" /\ content.wellformed
    THEN [exc |-> "", message |-> content]
    ELSE [exc |-> "InvalidFileFormatError", message |-> content]

\* mimetypes.guess_type(name)[0]
guess_type(name) ==
    CASE name = "f.pdf" -> "application/pdf"
      [] name = "a.txt" -> "text/plain"
      [] OTHER -> NoneStr

\* str(x)
Str(x) == IF x = NoneStr THEN "None" ELSE x

\* EmlAdapter._decode_from_file from "if read_attachments is True" on
EmlReadAttachments(message, mail_data, read_attachments) ==
    IF read_attachments = TRUE
    THEN [exc |-> "", md |-> extract_attachments_from_eml(message, mail_data)]
    ELSE [exc |-> "", md |-> mail_data]

\* EmlAdapter._decode_from_file from mail_data["body"] = ... on; body is
\* the outcome of extract_body_from_eml
EmlSetBody(message, mail_data, body, read_attachments) ==
    IF body.exc # "" THEN [exc |-> body.exc, md |-> mail_data]
    ELSE EmlReadAttachments(message, [mail_data EXCEPT !.body = body.text],
                            read_attachments)

\* EmlAdapter._decode_from_file after the header call, whose outcome is meta
EmlAfterHeader(message, meta, read_attachments) ==
    IF meta.exc # "" THEN meta
    ELSE EmlSetBody(message, meta.md, extract_body_from_eml(message),
                    read_attachments)

\* EmlAdapter._decode_from_file on the parsed message
EmlDecodeMessage(message, mail_data, read_attachments) ==
    EmlAfterHeader(message.message,
                   extract_metadata_from_eml_header(message.header, mail_data),
                   read_attachments)

\* EmlAdapter._decode_from_file: [exc, md]; md is self.mail_data as the call
\* leaves it, also when it raises
EmlDecodeFromFile(content, pos, mail_data, read_attachments) ==
    EmlDecodeMessage(message_from_binary_file(content, pos), mail_data,
                     read_attachments)

\* MsgAdapter._decode_from_file, the loop over message.attachments from i on;
\* reading attachment.data may raise inside the external parser
RECURSIVE MsgAttachLoop(_, _, _)
MsgAttachLoop(attachments, i, mail_data) ==
    IF i > Len(attachments) THEN [exc |-> "", md |-> mail_data]
    ELSE LET attachment == attachments[i]
             name == attachment.shortFilename
         IN IF name # NoneStr
            THEN IF ~attachment.readable
                 THEN [exc |-> "NotImplementedError", md |-> mail_data]
                 ELSE MsgAttachLoop(attachments, i + 1,
                        [mail_data EXCEPT
                           !.attachment_names = Append(@, name),
                           !.attachment_binaries = Append(@, attachment.data),
                           !.attachment_types = Append(@, Str(guess_type(name)))])
            ELSE MsgAttachLoop(attachments, i + 1, mail_data)

\* MsgAdapter._decode_from_file from "if read_attachments is True" on
MsgReadAttachments(message, mail_data, read_attachments) ==
    IF read_attachments = TRUE
    THEN MsgAttachLoop(message.attachments, 1, mail_data)
    ELSE [exc |-> "", md |-> mail_data]

\* MsgAdapter._decode_from_file from "if message.body is not None" on
MsgSetBody(message, mail_data, read_attachments) ==
    MsgReadAttachments(
        message,
        IF message.body.kind # "none"
        THEN [mail_data EXCEPT !.body = Strip(decode_msg_body(message.body), {0})]
        ELSE mail_data,
        read_attachments)

\* MsgAdapter._decode_from_file after the header call, whose outcome is meta
MsgAfterHeader(message, meta, read_attachments) ==
    IF meta.exc # "" THEN meta
    ELSE MsgSetBody(message, meta.md, read_attachments)

\* MsgAdapter._decode_from_file after Message(mail), whose outcome is parsed
MsgAfterParse(parsed, mail_data, read_attachments) ==
    IF parsed.exc # "" THEN [exc |-> parsed.exc, md |-> mail_data]
    ELSE MsgAfterHeader(parsed.message,
                        extract_metadata_from_eml_header(parsed.message.header,
                                                         mail_data),
                        read_attachments)

\* MsgAdapter._decode_from_file: [exc, md]
MsgDecodeFromFile(content, pos, mail_data, read_attachments) ==
    MsgAfterParse(Message(content, pos), mail_data, read_attachments)

\* a handler that catches ValueError only
CaughtValueError(exc) == exc = "ValueError"

\* the exception names above are all subclasses of Exception
Caught(exc) ==
    exc \in {"ValueError", "TypeError", "AttributeError", "LookupError",
             "UnicodeDecodeError", "NotImplementedError", "InvalidFileFormatError"}

\* the try/except of EmlAdapter.decode and MsgAdapter.decode around
\* _decode_from_file, whose outcome is r; MsgAdapter prints what it catches
TryExcept(cls, r) ==
    IF r.exc = ""
    THEN [kind |-> "record", exc |-> "", raised |-> "",
          md |-> r.md, value |-> r.md, printed |-> ""]
    ELSE IF Caught(r.exc)
    THEN [kind |-> "None", exc |-> "", raised |-> r.exc,
          md |-> r.md, value |-> InitMailData,
          printed |-> IF cls = "MsgAdapter" THEN r.exc ELSE ""]
    ELSE [kind |-> "raise", exc |-> r.exc, raised |-> r.exc,
          md |-> r.md, value |-> InitMailData, printed |-> ""]

\* decode of an instance of class cls: [kind, exc, md, value, printed].
\* kind "record" returns self.mail_data, "None" returns None, "raise"
\* propagates exc. MailAdapter.decode (inherited by a subclass that does not
\* override it) raises NotImplementedError.
decode(cls, content, pos, mail_data, read_attachments) ==
    IF cls = "EmlAdapter"
    THEN TryExcept(cls, EmlDecodeFromFile(content, pos, mail_data, read_attachments))
    ELSE IF cls = "MsgAdapter"
    THEN TryExcept(cls, MsgDecodeFromFile(content, pos, mail_data, read_attachments))
    ELSE [kind |-> "raise", exc |-> "NotImplementedError", raised |-> "",
          md |-> mail_data, value |-> InitMailData, printed |-> ""]

\* -------------------------------------------------------------- dispatcher
\* the class attribute supported_extension
supported_extension(cls) ==
    CASE cls = "EmlAdapter" -> ".eml"
      [] cls = "MsgAdapter" -> ".msg"
      [] cls = "MboxAdapter" -> ".mbox"
      [] OTHER -> ""

\* MailAdapter.__new__, the loop over MailAdapter.__subclasses__() from i on
RECURSIVE SubclassLoop(_, _, _, _)
SubclassLoop(cls, subs, i, file_extension) ==
    IF i > Len(subs) THEN [exc |-> "", cls |-> cls]
    ELSE IF supported_extension(subs[i]) = ""
         THEN [exc |-> "RuntimeError", cls |-> cls]
    ELSE IF file_extension = supported_extension(subs[i])
         THEN [exc |-> "", cls |-> subs[i]]
    ELSE SubclassLoop(cls, subs, i + 1, file_extension)

\* __new__ without the extension test
NewNoExtensionCheck(cls, file_extension, subs) ==
    IF cls = "MailAdapter" THEN SubclassLoop(cls, subs, 1, file_extension)
    ELSE [exc |-> "", cls |-> cls]

\* MailAdapter.__new__(cls, file): [exc, cls], the class of the new instance
New(cls, file_extension, subs) ==
    IF file_extension \notin {".eml", ".msg"}
    THEN [exc |-> "ValueError", cls |-> cls]
    ELSE IF cls = "MailAdapter" THEN SubclassLoop(cls, subs, 1, file_extension)
    ELSE [exc |-> "", cls |-> cls]

\* ------------------------------------------------------------------ inputs
Dates == {Absent, "garbage", GoodDate}

FullHeader(d) ==
    [date |-> d, subject |-> "Hi", from |-> "A <a@x.com>",
     to |-> <<"B <b@x.com>, c@x.com", "b@x.com">>, cc |-> <<"b@x.com">>]

BareHeader(d) == [NoHeader EXCEPT !.date = d]

Headers == {FullHeader(d) : d \in Dates} \cup {BareHeader(d) : d \in Dates}

Utf8Param == << <<"charset", "utf-8">> >>

\* parameter lists of a text/plain Content-Type header
CharsetParams ==
    {<<>>, Utf8Param, << <<"charset", "latin-1">> >>,
     << <<"format", "flowed">>, <<"charset", "utf-8">> >>}

\* payload bytes: "f", "s " and the single byte 0xE9
Payloads == {<<102>>, <<115, 32>>, <<233>>}

\* the parts a single-part message is drawn from
SingleLeaves ==
    {Leaf("text/plain", cp, NoneStr, NoneStr, p) : cp \in CharsetParams, p \in Payloads}
    \cup {Leaf(Absent, <<>>, NoneStr, NoneStr, p) : p \in Payloads}
    \cup {Leaf("application/pdf", <<>>, "attachment", fn, <<37>>) : fn \in {NoneStr, "f.pdf"}}

\* the leaves of a multipart message: two body texts ("first", "second "),
\* a text attachment, a named and an unnamed binary attachment, and a text
\* part without a Content-Type header
MultiLeaves ==
    {Leaf("text/plain", Utf8Param, NoneStr, NoneStr, <<102>>),
     Leaf("text/plain", Utf8Param, "inline", NoneStr, <<115, 32>>),
     Leaf("text/plain", Utf8Param, "attachment", "a.txt", <<97>>),
     Leaf("application/pdf", <<>>, "attachment", "f.pdf", <<37>>),
     Leaf("application/pdf", <<>>, "attachment", NoneStr, <<38>>),
     Leaf(Absent, <<>>, NoneStr, NoneStr, <<110>>)}

\* a child that holds exactly k leaves: a leaf, or a nested container of leaves
Firsts(k) ==
    (IF k = 1 THEN MultiLeaves ELSE {})
    \cup {Container(ls) : ls \in [1..k -> MultiLeaves]}

\* the child lists that hold exactly n leaves
RECURSIVE Children(_)
Children(n) ==
    IF n = 0 THEN {<<>>}
    ELSE UNION {{<<first>> \o rest : first \in Firsts(k), rest \in Children(n - k)}
                : k \in 1..n}

MultipartMessages ==
    {Container(c) : c \in UNION {Children(n) : n \in 1..MaxParts}}

EmlContents ==
    {EmlContent(h, m) : h \in Headers, m \in SingleLeaves}
    \cup {EmlContent(h, m) : h \in {FullHeader(GoodDate), BareHeader(Absent)},
                             m \in MultipartMessages}

\* bytes of a .msg body: NUL, "A", the UTF-8 pair C3 A9, and 0x81
ByteVals == {0, 65, 195, 169, 129}

MsgBodies ==
    {NoBody}
    \cup {[kind |-> "str", val |-> v] : v \in {<<72, 105>>, <<0, 72, 0>>}}
    \cup {[kind |-> "bytes", val |-> b] : b \in UNION {[1..k -> ByteVals] : k \in 0..MaxBodyLen}}

Attachments ==
    {[shortFilename |-> "f.pdf", data |-> <<1>>, readable |-> TRUE],
     [shortFilename |-> "x.zzz", data |-> <<2>>, readable |-> TRUE],
     [shortFilename |-> NoneStr, data |-> <<3>>, readable |-> TRUE],
     [shortFilename |-> "f.pdf", data |-> <<>>, readable |-> FALSE]}

MsgContents ==
    {MsgContent(TRUE, FullHeader(GoodDate), b, <<>>) : b \in MsgBodies}
    \cup {MsgContent(TRUE, h, b, a) :
            h \in Headers,
            b \in {NoBody, [kind |-> "str", val |-> <<72, 105>>]},
            a \in UNION {[1..k -> Attachments] : k \in 1..MaxAttach}}
    \cup {MsgContent(FALSE, NoHeader, NoBody, <<>>)}

Extensions == {".eml", ".msg", ".mbox", ".txt", ""}

ContentsFor(ext) ==
    IF ext = ".eml" THEN EmlContents
    ELSE IF ext = ".msg" THEN MsgContents
    ELSE {EmlContent(FullHeader(GoodDate),
                     Leaf("text/plain", Utf8Param, NoneStr, NoneStr, <<102>>))}

\* ------------------------------------------------------------------- state
VARIABLES
    subclasses,   \* MailAdapter.__subclasses__(), in definition order
    file,         \* the caller's file handle: [open, ext, content, pos]
    inst,         \* the adapter built on it: [live, cls, mail_data]
    ncalls,       \* decode calls made on inst
    ret           \* outcome of the last constructor or decode call

vars == <<subclasses, file, inst, ncalls, ret>>

NoFile ==
    [open |-> FALSE, ext |-> "", pos |-> 0,
     content |-> MsgContent(FALSE, NoHeader, NoBody, <<>>)]

NoInst == [live |-> FALSE, cls |-> "", mail_data |-> InitMailData]

NoRet ==
    [op |-> "none", kind |-> "none", cls |-> "", exc |-> "", raised |-> "",
     value |-> InitMailData, fresh |-> InitMailData, ra |-> FALSE, pos0 |-> 0,
     printed |-> ""]

Range(s) == {s[i] : i \in 1..Len(s)}

Init ==
    /\ subclasses = <<"EmlAdapter", "MsgAdapter">>
    /\ file = NoFile
    /\ inst = NoInst
    /\ ncalls = 0
    /\ ret = NoRet

\* class MboxAdapter(MailAdapter): supported_extension = ".mbox", defined by
\* the program before it opens a file
DefineSubclass ==
    /\ ~file.open
    /\ "MboxAdapter" \notin Range(subclasses)
    /\ subclasses' = Append(subclasses, "MboxAdapter")
    /\ UNCHANGED <<file, inst, ncalls, ret>>

\* the caller opens a file
OpenFile ==
    /\ ~file.open
    /\ \E ext \in Extensions : \E content \in ContentsFor(ext) :
         file' = [open |-> TRUE, ext |-> ext, content |-> content, pos |-> 0]
    /\ UNCHANGED <<subclasses, inst, ncalls, ret>>

\* cls(file): __new__, then __init__ on the instance it returns, which
\* replaces the adapter the program held
Construct ==
    /\ file.open
    /\ \E cls \in {"MailAdapter"} \cup Range(subclasses) :
         LET r == New(cls, file.ext, subclasses)
         IN IF r.exc # ""
            THEN /\ ret' = [NoRet EXCEPT !.op = "new", !.kind = "raise",
                                         !.cls = cls, !.exc = r.exc]
                 /\ UNCHANGED <<inst, ncalls>>
            ELSE /\ inst' = [live |-> TRUE, cls |-> r.cls, mail_data |-> InitMailData]
                 /\ ncalls' = 0
                 /\ ret' = [NoRet EXCEPT !.op = "new", !.kind = "instance",
                                         !.cls = cls]
    /\ UNCHANGED <<subclasses, file>>

\* the state a decode call leaves: r is its outcome, f the outcome the same
\* call has on a newly initialised mail_data
Returned(read_attachments, r, f) ==
    /\ inst' = [inst EXCEPT !.mail_data = r.md]
    /\ ret' = [op |-> "decode", kind |-> r.kind, cls |-> inst.cls,
               exc |-> r.exc, raised |-> r.raised, value |-> r.value,
               fresh |-> f.value, ra |-> read_attachments,
               pos0 |-> file.pos, printed |-> r.printed]

\* inst.decode(read_attachments)
DecodeCall ==
    /\ inst.live
    /\ ncalls < MaxDecodes
    /\ \E read_attachments \in BOOLEAN :
         Returned(read_attachments,
                  decode(inst.cls, file.content, file.pos, inst.mail_data,
                         read_attachments),
                  decode(inst.cls, file.content, file.pos, InitMailData,
                         read_attachments))
    /\ file' = IF inst.cls \in {"EmlAdapter", "MsgAdapter"}
               THEN [file EXCEPT !.pos = 1] ELSE file
    /\ ncalls' = ncalls + 1
    /\ UNCHANGED subclasses

\* the caller rewinds the handle: file.seek(0)
Rewind ==
    /\ file.open
    /\ file.pos # 0
    /\ file' = [file EXCEPT !.pos = 0]
    /\ UNCHANGED <<subclasses, inst, ncalls, ret>>

Next == DefineSubclass \/ OpenFile \/ Construct \/ DecodeCall \/ Rewind

Spec == Init /\ [][Next]_vars

TypeOK == ncalls \in 0..MaxDecodes

\* ------------------------------------------------------------------ claims
Decoders == {"EmlAdapter", "MsgAdapter"}

\* the last call was a decode of a file the instance's decoder can parse,
\* read from its start
DecodedFromStart(cls, kind) ==
    /\ ret.op = "decode"
    /\ ret.cls = cls
    /\ ret.pos0 = 0
    /\ file.content.kind = kind
    /\ file.content.wellformed

\* C1: a file whose extension is neither .eml nor .msg never gets a decoder:
\* every constructor call on it raises ValueError, no instance exists, the
\* file is never read and no decode call is made on it.
C1_UnsupportedExtensionRaises ==
    (file.open /\ file.ext \notin {".eml", ".msg"}) =>
        /\ ~inst.live
        /\ file.pos = 0
        /\ ncalls = 0
        /\ ret.op # "decode"
        /\ (ret.op = "new" => ret.kind = "raise" /\ ret.exc = "ValueError")

C1_Witness ==
    /\ file.open /\ file.ext = ".txt"
    /\ ret.op = "new" /\ ret.cls = "MailAdapter"
    /\ ret.kind = "raise" /\ ret.exc = "ValueError"

\* C2: a decode call on an EmlAdapter or MsgAdapter never propagates an
\* exception: it returns a record, or None exactly when something raised
\* inside _decode_from_file.
C2_DecodeNeverPropagates ==
    (ret.op = "decode" /\ ret.cls \in Decoders) =>
        /\ ret.kind \in {"record", "None"}
        /\ ret.exc = ""
        /\ (ret.kind = "None" <=> ret.raised # "")

C2_Witness ==
    /\ ret.op = "decode" /\ ret.cls = "EmlAdapter" /\ ret.pos0 = 0
    /\ ret.raised = "UnicodeDecodeError"
    /\ ret.kind = "None"

\* C3: MailAdapter(file) returns an instance of the registered subclass
\* whose non-empty supported_extension equals the file's extension, for
\* every registered subclass.
C3_DispatchOpenForExtension ==
    (ret.op = "new" /\ ret.cls = "MailAdapter") =>
        \A i \in 1..Len(subclasses) :
            (supported_extension(subclasses[i]) # ""
             /\ supported_extension(subclasses[i]) = file.ext)
            => (ret.kind = "instance" /\ inst.cls = subclasses[i])

WithDate(content, d) == [content EXCEPT !.header.date = d]

\* C4: a message that decodes with a parseable Date also decodes when its
\* Date is absent or unparseable, and the record's received_on is then "".
C4_MissingDateStillDecodes ==
    \A cls \in Decoders :
        (/\ DecodedFromStart(cls, IF cls = "EmlAdapter" THEN "eml" ELSE "msg")
         /\ file.content.header.date # GoodDate
         /\ decode(cls, WithDate(file.content, GoodDate), 0, InitMailData,
                   ret.ra).kind = "record")
        => (ret.kind = "record" /\ ret.value.received_on = "")

\* the attachments of a file as the decoder of class cls meets them:
\* (name, binary, type), the name NoneStr when there is no filename
AttachmentTriples(cls, content) ==
    IF cls = "EmlAdapter"
    THEN LET w == SelectSeq(Walk(content.message), LAMBDA p : p.disp = "attachment")
         IN [i \in 1..Len(w) |->
               [name |-> w[i].filename, bin |-> w[i].payload,
                type |-> get_content_type(w[i])]]
    ELSE [i \in 1..Len(content.attachments) |->
            [name |-> content.attachments[i].shortFilename,
             bin |-> content.attachments[i].data,
             type |-> Str(guess_type(content.attachments[i].shortFilename))]]

\* C5: in every returned record the three attachment lists have one length,
\* entry i of each describes one and the same attachment that has a
\* filename, and the first decode of an instance with read_attachments
\* lists exactly the named attachments in the order met.
C5_AttachmentsAligned ==
    ret.kind = "record" =>
        LET md == ret.value
            named == SelectSeq(AttachmentTriples(ret.cls, file.content),
                               LAMBDA a : a.name # NoneStr)
            entry(i) == [name |-> md.attachment_names[i],
                         bin |-> md.attachment_binaries[i],
                         type |-> md.attachment_types[i]]
        IN /\ Len(md.attachment_names) = Len(md.attachment_binaries)
           /\ Len(md.attachment_names) = Len(md.attachment_types)
           /\ \A i \in 1..Len(md.attachment_names) :
                /\ md.attachment_names[i] # NoneStr
                /\ \E j \in 1..Len(named) : entry(i) = named[j]
           /\ (ncalls = 1 /\ ret.ra) =>
                /\ Len(md.attachment_names) = Len(named)
                /\ \A i \in 1..Len(named) : entry(i) = named[i]

C5_Witness ==
    /\ ret.kind = "record" /\ ret.cls = "EmlAdapter" /\ ncalls = 1
    /\ Len(file.content.message.parts) = 2
    /\ file.content.message.parts[1].disp = "attachment"
    /\ file.content.message.parts[1].filename = NoneStr
    /\ ret.value.attachment_names = <<"f.pdf">>
    /\ ret.value.attachment_binaries = << <<37>> >>
    /\ ret.value.attachment_types = <<"application/pdf">>

\* C6: the body of a record decoded from a multipart .eml message is the
\* stripped, decoded payload of the last part of the depth-first walk whose
\* main type is text and whose disposition is not attachment, and is empty
\* when no part qualifies.
C6_LastTextPartWins ==
    (ret.kind = "record" /\ ret.cls = "EmlAdapter" /\ file.content.message.multipart) =>
        LET w == Walk(file.content.message)
            q == {i \in 1..Len(w) : /\ get_content_maintype(w[i]) = "text"
                                    /\ w[i].disp # "attachment"}
        IN IF q = {} THEN ret.value.body = <<>>
           ELSE LET last == CHOOSE i \in q : \A k \in q : k <= i
                IN ret.value.body =
                     Decode(Strip(w[last].payload, Whitespace),
                            get_charset(w[last]).charset).text

C6_Witness ==
    /\ ret.kind = "record" /\ ret.cls = "EmlAdapter"
    /\ file.content.message.multipart
    /\ Len(file.content.message.parts) = 2
    /\ file.content.message.parts[1].payload = <<102>>
    /\ file.content.message.parts[1].disp = NoneStr
    /\ file.content.message.parts[2].payload = <<115, 32>>
    /\ ret.value.body = <<115>>

\* C7: a record returned by decode(read_attachments=False) has empty
\* attachment_names, attachment_binaries and attachment_types.
C7_NoAttachmentsWhenDisabled ==
    (ret.op = "decode" /\ ret.kind = "record" /\ ret.ra = FALSE) =>
        /\ ret.value.attachment_names = <<>>
        /\ ret.value.attachment_binaries = <<>>
        /\ ret.value.attachment_types = <<>>

\* the text of the first encoding of the stated order that decodes b, the
\* lossy ascii decoding if none does
FirstSuccess(b) ==
    LET order == <<"ascii", "utf-8", "utf-8-sig", "latin-1", "cp1252">>
        good == {i \in 1..Len(order) : Decode(b, order[i]).exc = ""}
    IN IF good = {} THEN AsciiIgnore(b)
       ELSE Decode(b, order[CHOOSE i \in good : \A k \in good : i <= k]).text

\* C8: a .msg container with a bytes body, a parseable Date and readable
\* attachments always decodes to a record; its body is the text of the
\* first of ascii, utf-8, utf-8-sig, latin-1, cp1252 that decodes the bytes,
\* without the leading and trailing NULs (bytes that are neither ascii nor
\* utf-8 give the latin-1 text).
C8_MsgBodyDecodingTotal ==
    (/\ DecodedFromStart("MsgAdapter", "msg")
     /\ file.content.body.kind = "bytes"
     /\ file.content.header.date = GoodDate
     /\ \A i \in 1..Len(file.content.attachments) :
            file.content.attachments[i].readable) =>
        LET b == file.content.body.val
            text == FirstSuccess(b)
            body == ret.value.body
        IN /\ ret.kind = "record"
           /\ (body # <<>> => body[1] # 0 /\ body[Len(body)] # 0)
           /\ \E i \in 1..(Len(text) + 1) : \E j \in 0..Len(text) :
                /\ SubSeq(text, i, j) = body
                /\ \A k \in 1..Len(text) : (k < i \/ k > j) => text[k] = 0
           /\ (~Decode(b, "utf-8").exc = "" => text = b)

C8_Witness ==
    /\ DecodedFromStart("MsgAdapter", "msg")
    /\ file.content.body = [kind |-> "bytes", val |-> <<0, 129, 0>>]
    /\ ret.kind = "record"
    /\ ret.value.body = <<129>>

\* C9: a single-part .eml message without a Content-Type header, with a
\* parseable Date and a UTF-8 payload, decodes to a record whose body is the
\* UTF-8 text of the payload.
C9_CharsetDefaultsToUtf8 ==
    (/\ DecodedFromStart("EmlAdapter", "eml")
     /\ ~file.content.message.multipart
     /\ file.content.message.ctype = Absent
     /\ file.content.header.date = GoodDate
     /\ Decode(Strip(file.content.message.payload, Whitespace), "utf-8").exc = "") =>
        /\ ret.kind = "record"
        /\ ret.value.body =
             Decode(Strip(file.content.message.payload, Whitespace), "utf-8").text

\* C10: the record a decode call returns is the record the same call gives
\* on a newly initialised mail_data: nothing an earlier call wrote shows.
C10_FreshRecordPerCall ==
    (ret.op = "decode" /\ ret.kind = "record") => ret.value = ret.fresh

====
